---- MODULE Spec2Model ----
(***************************************************************************)
(* PredictedProcess (src/src/PredictedProcess.ts) and                      *)
(* PredictedProcessesManager (src/unnamed/part_000) as a state machine.    *)
(*                                                                         *)
(* The program runs on one JavaScript thread.  A step of the model is one  *)
(* synchronous piece of it: a call made by the embedding application, one  *)
(* event handler run by the event loop, or one promise continuation        *)
(* (microtask).  The OS processes run outside that thread; they are seen   *)
(* through their 'error' and 'close' events only.                          *)
(***************************************************************************)
EXTENDS Integers, Sequences, FiniteSets, TLC

\* ---- bounds of the model ----
MaxRuns     == 2      \* run() invocations on the handle in one behaviour
BatchSize   == 2      \* handles the manager is constructed with for runAll()
PoolSize    == 3      \* handles the application adds to and removes from a manager
MaxManaged  == 3      \* length of the manager's _processes array there
NumSignals  == 2      \* AbortSignal objects of the application
MaxId       == 2      \* ids are 1..MaxId
MaxCode     == 1      \* exit codes are 0..MaxCode

\* ---- values ----
Null      == 0        \* null / undefined reference (handles, processes, runs are numbered from 1)
NoSignal  == 0        \* run() / runAll() called without a signal
NullCode  == -1       \* no exit code (yet)
ENOENT    == -2       \* errno of the error object a failed spawn emits: no such file
EACCES    == -13      \* or: permission denied

Ids      == 1..MaxId
Commands == <<"true", "false">>
Signals  == 1..NumSignals
Codes    == 0..MaxCode
Causes   == {ENOENT, EACCES}

\* Error objects: the message of the source, and the value it carries.
NoError                  == [msg |-> "", arg |-> Null]
SignalAlreadyAborted     == [msg |-> "Signal already aborted", arg |-> Null]
ProcessAlreadyRunning    == [msg |-> "Process already running", arg |-> Null]
SignalAborted            == [msg |-> "Signal aborted", arg |-> Null]
CannotMemoize            == [msg |-> "Cannot memoize a running process", arg |-> Null]
ProcessFailed(code)      == [msg |-> "Process failed with code", arg |-> code]
SpawnError(cause)        == [msg |-> "spawn error", arg |-> cause]

VARIABLES
  handles,       \* the PredictedProcess objects: id, command, _childProcess, _isRunning, _completed
  procs,         \* the OS processes spawned so far (ChildProcess objects)
  runs,          \* the run() invocations so far: their promise and where they stand
  fired,         \* fired[s]: signal s is aborted
  sigListeners,  \* sigListeners[s]: the 'abort' listeners on signal s, in registration order
  processes,     \* the manager's _processes array (indices into handles)
  batches,       \* the runAll() invocations so far
  microq,        \* runs whose continuation after `await` is queued as a microtask
  stack,         \* "user": application code put the microtasks there; "loop": an OS event handler did
  last           \* what the last step returned, when it was memoize() or a collection method

vars == <<handles, procs, runs, fired, sigListeners, processes, batches, microq, stack, last>>

\* The part of the state run(), cleanup() and the listeners work on.
World == [handles |-> handles, procs |-> procs, runs |-> runs,
          sigListeners |-> sigListeners, microq |-> microq]

NewHandle(id, command) ==
  [id |-> id, command |-> command, childProcess |-> Null,
   isRunning |-> FALSE, completed |-> FALSE]

isRunning(h)   == handles[h].isRunning
isCompleted(h) == handles[h].completed

\* Mutant of cleanup: the listeners of the child are left attached.
cleanupKeepsListeners(w, h) ==
  LET c == w.handles[h].childProcess IN
  IF c # Null
  THEN [w EXCEPT !.handles[h].childProcess = Null,
                 !.handles[h].isRunning = FALSE,
                 !.handles[h].completed = FALSE]
  ELSE w

\* Mutant of cleanup: the completed flag is left as it is.
cleanupKeepsCompleted(w, h) ==
  LET c == w.handles[h].childProcess IN
  IF c # Null
  THEN [w EXCEPT !.procs[c].listening = FALSE,
                 !.handles[h].childProcess = Null,
                 !.handles[h].isRunning = FALSE]
  ELSE w

\* Mutant of cleanup: the running flag is left as it is.
cleanupKeepsRunning(w, h) ==
  LET c == w.handles[h].childProcess IN
  IF c # Null
  THEN [w EXCEPT !.procs[c].listening = FALSE,
                 !.handles[h].childProcess = Null,
                 !.handles[h].completed = FALSE]
  ELSE w

\* cleanup(): removeAllListeners() on the owned child, then the reference and both flags reset.
cleanup(w, h) ==
  LET c == w.handles[h].childProcess IN
  IF c # Null
  THEN [w EXCEPT !.procs[c].listening = FALSE,
                 !.handles[h].childProcess = Null,
                 !.handles[h].isRunning = FALSE,
                 !.handles[h].completed = FALSE]
  ELSE w

\* resolve() / reject() of a run's promise: the first call settles it, later calls do nothing.
\* Settling queues the continuation of `await promise` in run().
settle(w, r, outcome, err) ==
  IF w.runs[r].promise = "pending"
  THEN [w EXCEPT !.runs[r].promise = outcome,
                 !.runs[r].error = err,
                 !.microq = Append(@, r)]
  ELSE w

NewRun(h, s, b, p, outcome, err) ==
  [handle |-> h, signal |-> s, batch |-> b, proc |-> p,
   promise |-> outcome, error |-> err, returned |-> FALSE]

\* The promise executor of run(): spawn, the flag, the listeners on the child and on the signal.
executor(w, h, s, b) ==
  LET r == Len(w.runs) + 1
      p == Len(w.procs) + 1
  IN [w EXCEPT
        !.procs = Append(@, [handle |-> h, run |-> r, status |-> "running",
                             code |-> NullCode, listening |-> TRUE, kills |-> 0]),
        !.handles[h].childProcess = p,
        !.handles[h].isRunning = TRUE,
        !.runs = Append(@, NewRun(h, s, b, p, "pending", NoError)),
        !.sigListeners = IF s # NoSignal THEN [@ EXCEPT ![s] = Append(@, r)] ELSE @]

\* A run() that ends before its promise executor: it throws, or returns at once.
immediate(w, h, s, b, outcome, err) ==
  [w EXCEPT !.runs = Append(@, NewRun(h, s, b, Null, outcome, err)),
            !.microq = Append(@, Len(w.runs) + 1)]

\* Mutant of run: the 'already running' guard is missing.
runWithoutRunningGuard(w, h, s, b) ==
  IF s # NoSignal /\ fired[s] THEN immediate(w, h, s, b, "rejected", SignalAlreadyAborted)
  ELSE IF w.handles[h].completed THEN immediate(w, h, s, b, "resolved", NoError)
  ELSE executor(w, h, s, b)

\* Mutant of run: the signal is looked at after the flags.
runChecksSignalLast(w, h, s, b) ==
  IF w.handles[h].completed THEN immediate(w, h, s, b, "resolved", NoError)
  ELSE IF w.handles[h].isRunning THEN immediate(w, h, s, b, "rejected", ProcessAlreadyRunning)
  ELSE IF s # NoSignal /\ fired[s] THEN immediate(w, h, s, b, "rejected", SignalAlreadyAborted)
  ELSE executor(w, h, s, b)

\* run(signal), up to its `await`: the three guards, then the promise executor.
\* b is the runAll() batch that made the call, or Null.
run(w, h, s, b) ==
  IF s # NoSignal /\ fired[s] THEN immediate(w, h, s, b, "rejected", SignalAlreadyAborted)
  ELSE IF w.handles[h].completed THEN immediate(w, h, s, b, "resolved", NoError)
  ELSE IF w.handles[h].isRunning THEN immediate(w, h, s, b, "rejected", ProcessAlreadyRunning)
  ELSE executor(w, h, s, b)

\* The 'abort' listener run r registered: `this` is r's handle, reject is r's.
abortListener(w, r) ==
  LET h  == w.runs[r].handle
      c  == w.handles[h].childProcess
      w1 == IF c # Null /\ ~w.handles[h].completed
            THEN [w EXCEPT !.procs[c].kills = @ + 1]
            ELSE w
  IN settle(cleanup(w1, h), r, "rejected", SignalAborted)

\* Mutant of dispatchAbort: only the listener registered first runs.
dispatchAbortFirstOnly(w, ls) ==
  IF ls = <<>> THEN w ELSE abortListener(w, Head(ls))

\* dispatch of 'abort': the listeners run in registration order.
RECURSIVE dispatchAbort(_, _)
dispatchAbort(w, ls) ==
  IF ls = <<>> THEN w ELSE dispatchAbort(abortListener(w, Head(ls)), Tail(ls))

\* Mutant of closeListener: every exit code is taken for a failure.
closeListenerAlwaysRejects(w, p, code) ==
  LET h  == w.procs[p].handle
      r  == w.procs[p].run
      w1 == [w EXCEPT !.handles[h].completed = TRUE]
  IN cleanup(settle(w1, r, "rejected", ProcessFailed(code)), h)

\* Mutant of closeListener: the exit code is not looked at.
closeListenerAlwaysResolves(w, p, code) ==
  LET h  == w.procs[p].handle
      r  == w.procs[p].run
      w1 == [w EXCEPT !.handles[h].completed = TRUE]
  IN cleanup(settle(w1, r, "resolved", NoError), h)

\* The 'close' listener of process p.
closeListener(w, p, code) ==
  LET h  == w.procs[p].handle
      r  == w.procs[p].run
      w1 == [w EXCEPT !.handles[h].completed = TRUE]
      w2 == IF code = 0 THEN settle(w1, r, "resolved", NoError)
                        ELSE settle(w1, r, "rejected", ProcessFailed(code))
  IN cleanup(w2, h)

\* Mutant of errorListener: the failure is reported as an exit with the errno as code.
errorListenerAsExit(w, p, cause) ==
  LET h == w.procs[p].handle
      r == w.procs[p].run
  IN settle(cleanup(w, h), r, "rejected", ProcessFailed(cause))

\* The 'error' listener of process p.
errorListener(w, p, cause) ==
  LET h == w.procs[p].handle
      r == w.procs[p].run
  IN settle(cleanup(w, h), r, "rejected", SpawnError(cause))

\* Mutant of kill: the termination request is sent, the state is not cleaned up.
killWithoutCleanup(w, h) ==
  LET c == w.handles[h].childProcess IN
  IF c # Null /\ ~w.handles[h].completed
  THEN [w EXCEPT !.procs[c].kills = @ + 1]
  ELSE w

\* kill()
kill(w, h) ==
  LET c  == w.handles[h].childProcess
      w1 == IF c # Null /\ ~w.handles[h].completed
            THEN [w EXCEPT !.procs[c].kills = @ + 1]
            ELSE w
  IN cleanup(w1, h)

\* Mutant of runFinally: run() ends without its finally block.
runFinallySkipsCleanup(w, r) == w

\* The rest of run() after `await promise`: the finally block.  A run that failed a
\* guard or found the handle completed never entered the try block.
runFinally(w, r) ==
  IF w.runs[r].proc # Null THEN cleanup(w, w.runs[r].handle) ELSE w

SetWorld(w) ==
  /\ handles' = w.handles
  /\ procs' = w.procs
  /\ runs' = w.runs
  /\ sigListeners' = w.sigListeners
  /\ microq' = w.microq

\* Application code runs when no microtask is queued, or in the synchronous code
\* (or a microtask) that follows a call of its own which queued them.
UserTurn == microq = <<>> \/ stack = "user"

\* The application's signals are interchangeable: it takes them in order.
Used(s) == fired[s] \/ \E r \in 1..Len(runs) : runs[r].signal = s
CanUse(s) == s = NoSignal \/ \A t \in 1..(s - 1) : Used(t)

\* The last step, when it was a call of memoize() or of the manager's collection
\* methods: the method, its receiver or argument, and what it returned or threw
\* (result: the handle getProcess found, the number of elements removeProcess
\* dropped; made: the object memoize() constructed).
\* NoCall after any other step.
Call(op, a, result, made, err) ==
  [op |-> op, a |-> a, result |-> result, made |-> made, error |-> err]
NoCall == Call("", Null, Null, <<>>, NoError)

\* The handle constructed with id i
Constructed(i) == NewHandle(i, Commands[((i - 1) % Len(Commands)) + 1])

\* Mutant of memoizeThrows: the guard reads the completed flag.
memoizeThrowsIfCompleted(hs, h) == hs[h].completed

\* memoize(): its guard, and the object it returns when the guard lets it
memoizeThrows(hs, h) == hs[h].isRunning
memoize(hs, h) == NewHandle(hs[h].id, hs[h].command)

\* addProcess(process): push
addProcess(ps, h) == Append(ps, h)

\* Mutant of removeProcess: only the first match is removed.
RECURSIVE removeFirst(_, _, _)
removeFirst(ps, hs, id) ==
  IF ps = <<>> THEN <<>>
  ELSE IF hs[Head(ps)].id = id THEN Tail(ps)
  ELSE <<Head(ps)>> \o removeFirst(Tail(ps), hs, id)

\* removeProcess(id): filter
removeProcess(ps, hs, id) == SelectSeq(ps, LAMBDA h : hs[h].id # id)

\* getProcess(id): find on a copy of the array; Null stands for undefined
RECURSIVE find(_, _, _)
find(ps, hs, id) ==
  IF ps = <<>> THEN Null
  ELSE IF hs[Head(ps)].id = id THEN Head(ps)
  ELSE find(Tail(ps), hs, id)
getProcess(ps, hs, id) == find(ps, hs, id)

\* runAll(signal), line 47: map calls run(signal) on every element, in array order
RECURSIVE mapRun(_, _, _, _)
mapRun(w, ps, s, b) ==
  IF ps = <<>> THEN w ELSE mapRun(run(w, Head(ps), s, b), Tail(ps), s, b)

\* Mutant of promiseAll: the first run that resolves resolves the batch.
promiseAny(bt, rs, r) ==
  IF bt.state # "pending" THEN bt
  ELSE IF rs[r].promise = "rejected"
       THEN [bt EXCEPT !.state = "rejected", !.error = rs[r].error]
  ELSE [bt EXCEPT !.state = "resolved"]

\* Mutant of promiseAll: every rejection replaces the error of the batch.
promiseAllLastError(bt, rs, r) ==
  IF rs[r].promise = "rejected"
  THEN [bt EXCEPT !.state = "rejected", !.error = rs[r].error]
  ELSE IF bt.state # "pending" THEN bt
  ELSE IF \A q \in bt.first..bt.last : q = r \/ rs[q].returned
       THEN [bt EXCEPT !.state = "resolved"]
  ELSE bt

\* runAll(signal), line 50: Promise.all, seen when run r of batch bt returns to it.
\* It rejects with the first rejection it sees and resolves when every run has resolved.
promiseAll(bt, rs, r) ==
  IF bt.state # "pending" THEN bt
  ELSE IF rs[r].promise = "rejected"
       THEN [bt EXCEPT !.state = "rejected", !.error = rs[r].error]
  ELSE IF \A q \in bt.first..bt.last : q = r \/ rs[q].returned
       THEN [bt EXCEPT !.state = "resolved"]
  ELSE bt

\* Promise.all of no promises resolves.
NewBatch(s, first, n) ==
  [signal |-> s, first |-> first, last |-> first + n - 1,
   state |-> IF n = 0 THEN "resolved" ELSE "pending", error |-> NoError]

NothingStarted ==
  /\ procs = <<>>
  /\ runs = <<>>
  /\ fired = [s \in Signals |-> FALSE]
  /\ sigListeners = [s \in Signals |-> <<>>]
  /\ batches = <<>>
  /\ microq = <<>>
  /\ stack = "user"
  /\ last = NoCall

\* One PredictedProcess, the handle; no manager.
TheHandle == 1

Init ==
  /\ handles = <<Constructed(TheHandle)>>
  /\ processes = <<>>
  /\ NothingStarted

\* handle.run(signal) called by the application
Run(h, s) ==
  /\ UserTurn
  /\ CanUse(s)
  /\ Len(runs) < MaxRuns
  /\ SetWorld(run(World, h, s, Null))
  /\ stack' = "user"
  /\ last' = NoCall
  /\ UNCHANGED <<fired, processes, batches>>

\* handle.kill() called by the application
Kill(h) ==
  /\ UserTurn
  /\ SetWorld(kill(World, h))
  /\ stack' = "user"
  /\ last' = NoCall
  /\ UNCHANGED <<fired, processes, batches>>

\* handle.memoize() called by the application, which gets a new object or an error
Memoize(h) ==
  /\ UserTurn
  /\ last' = IF memoizeThrows(handles, h)
             THEN Call("memoize", h, Null, <<>>, CannotMemoize)
             ELSE Call("memoize", h, Null, <<memoize(handles, h)>>, NoError)
  /\ stack' = "user"
  /\ UNCHANGED <<handles, procs, runs, fired, sigListeners, processes, batches, microq>>

\* controller.abort(): the signal fires, once
Abort(s) ==
  /\ UserTurn
  /\ CanUse(s)
  /\ ~fired[s]
  /\ fired' = [fired EXCEPT ![s] = TRUE]
  /\ SetWorld(dispatchAbort(World, sigListeners[s]))
  /\ stack' = "user"
  /\ last' = NoCall
  /\ UNCHANGED <<processes, batches>>

\* The OS process p ends: the event loop emits 'close' with its exit code.  The code
\* is the listener's argument: with no listener left nobody receives it.
Close(p, code) ==
  /\ microq = <<>>
  /\ procs[p].status # "closed"
  /\ LET w0 == [World EXCEPT !.procs[p].status = "closed"]
         w1 == IF procs[p].listening
               THEN closeListener([w0 EXCEPT !.procs[p].code = code], p, code)
               ELSE w0
     IN /\ SetWorld(w1)
        /\ stack' = IF w1.microq = <<>> THEN "user" ELSE "loop"
  /\ last' = NoCall
  /\ UNCHANGED <<fired, processes, batches>>

\* The OS reports that p could not be spawned: the event loop emits 'error' to the
\* listener, which is given the cause (kept in the code field of p).  (An 'error' event nobody listens to ends the whole program.)
Error(p, cause) ==
  /\ microq = <<>>
  /\ procs[p].status = "running"
  /\ procs[p].listening
  /\ SetWorld(errorListener([World EXCEPT !.procs[p].status = "errored",
                                          !.procs[p].code = cause], p, cause))
  /\ stack' = "loop"
  /\ last' = NoCall
  /\ UNCHANGED <<fired, processes, batches>>

\* The first queued microtask: run r continues after its `await` and returns to its
\* caller, the application or the Promise.all of its runAll().
RunReturn ==
  /\ microq # <<>>
  /\ LET r  == Head(microq)
         w1 == runFinally(World, r)
         rs == [w1.runs EXCEPT ![r].returned = TRUE]
         b  == runs[r].batch
     IN /\ handles' = w1.handles
        /\ procs' = w1.procs
        /\ runs' = rs
        /\ sigListeners' = w1.sigListeners
        /\ batches' = IF b = Null THEN batches
                      ELSE [batches EXCEPT ![b] = promiseAll(@, rs, r)]
        /\ microq' = Tail(microq)
        /\ stack' = IF Tail(microq) = <<>> THEN "user" ELSE stack
        /\ last' = NoCall
  /\ UNCHANGED <<fired, processes>>

Next ==
  \/ \E s \in {NoSignal} \cup Signals : Run(TheHandle, s)
  \/ Kill(TheHandle)
  \/ Memoize(TheHandle)
  \/ \E s \in Signals : Abort(s)
  \/ \E p \in 1..Len(procs), code \in Codes : Close(p, code)
  \/ \E p \in 1..Len(procs), cause \in Causes : Error(p, cause)
  \/ RunReturn

Spec == Init /\ [][Next]_vars

\* The OS process p exits, with some code.
Exit(p) == p \in 1..Len(procs) /\ \E code \in Codes : Close(p, code)

\* The same handle under the scheduling the program runs with: a queued continuation
\* is run by the microtask queue, and every OS process exits at some time.  The
\* application is under no obligation to make any call.
SpecLive ==
  /\ Init /\ [][Next]_vars
  /\ WF_vars(RunReturn)
  /\ \A p \in 1..MaxRuns : WF_vars(Exit(p))

\* ---- the manager's runAll ----

\* The arrays the manager can be constructed with, up to the numbering of the handles.
RECURSIVE InOrder(_, _)
InOrder(ps, seen) ==
  ps = <<>> \/ (Head(ps) <= seen + 1 /\
                InOrder(Tail(ps), IF Head(ps) > seen THEN Head(ps) ELSE seen))

Arrays(n) == UNION {[1..k -> 1..n] : k \in 0..n}

\* BatchSize handles of different ids and commands, and a manager constructed with
\* an array of them, some of its elements possibly the same object.
InitAll ==
  /\ handles = [i \in 1..BatchSize |-> Constructed(((i - 1) % MaxId) + 1)]
  /\ processes \in {ps \in Arrays(BatchSize) : InOrder(ps, 0)}
  /\ NothingStarted

\* manager.runAll(signal) called by the application, once
RunAll(s) ==
  /\ UserTurn
  /\ CanUse(s)
  /\ batches = <<>>
  /\ SetWorld(mapRun(World, processes, s, 1))
  /\ batches' = <<NewBatch(s, Len(runs) + 1, Len(processes))>>
  /\ stack' = "user"
  /\ last' = NoCall
  /\ UNCHANGED <<fired, processes>>

NextAll ==
  \/ \E s \in {NoSignal} \cup Signals : RunAll(s)
  \/ \E h \in 1..Len(handles) : Kill(h)
  \/ \E s \in Signals : Abort(s)
  \/ \E p \in 1..Len(procs), code \in Codes : Close(p, code)
  \/ \E p \in 1..Len(procs), cause \in Causes : Error(p, cause)
  \/ RunReturn

SpecAll == InitAll /\ [][NextAll]_vars

\* ---- the manager's collection ----

\* PoolSize handles of any ids, and an empty manager.
InitMgr ==
  /\ handles \in [1..PoolSize -> {Constructed(i) : i \in Ids}]
  /\ processes = <<>>
  /\ NothingStarted

\* manager.addProcess(handle)
AddProcess(h) ==
  /\ UserTurn
  /\ Len(processes) < MaxManaged
  /\ processes' = addProcess(processes, h)
  /\ stack' = "user"
  /\ last' = Call("addProcess", h, Null, <<>>, NoError)
  /\ UNCHANGED <<handles, procs, runs, fired, sigListeners, batches, microq>>

\* manager.removeProcess(id)
RemoveProcess(id) ==
  /\ UserTurn
  /\ processes' = removeProcess(processes, handles, id)
  /\ stack' = "user"
  /\ last' = Call("removeProcess", id, Len(processes) - Len(processes'), <<>>, NoError)
  /\ UNCHANGED <<handles, procs, runs, fired, sigListeners, batches, microq>>

\* manager.getProcess(id)
GetProcess(id) ==
  /\ UserTurn
  /\ last' = Call("getProcess", id, getProcess(processes, handles, id), <<>>, NoError)
  /\ stack' = "user"
  /\ UNCHANGED <<handles, procs, runs, fired, sigListeners, processes, batches, microq>>

NextMgr ==
  \/ \E h \in 1..Len(handles) : AddProcess(h)
  \/ \E id \in Ids : RemoveProcess(id)
  \/ \E id \in Ids : GetProcess(id)

SpecMgr == InitMgr /\ [][NextMgr]_vars

\* ======================= properties =======================

NewRunStep  == Len(runs') = Len(runs) + 1
NewestRun   == Len(runs')
SpawnStep   == Len(procs') = Len(procs) + 1
Returns(r)  == r \in 1..Len(runs) /\ ~runs[r].returned /\ runs'[r].returned
RunsBefore  == SubSeq(runs', 1, Len(runs))

\* The OS processes handle h holds on to: the one it references and those whose
\* listeners still call into it.
Owned(h) ==
  {p \in 1..Len(procs) :
     procs[p].handle = h /\ (handles[h].childProcess = p \/ procs[p].listening)}

AtMostOneOwned == \A h \in 1..Len(handles) : Cardinality(Owned(h)) <= 1

SpawnsOnlyWhenOwningNone ==
  SpawnStep => Owned(procs'[Len(procs')].handle) = {}

\* C1: in every reachable state the handle owns at most one OS process, and run()
\* never spawns a process while the handle still owns one.
C1_AtMostOneProcess == []AtMostOneOwned /\ [][SpawnsOnlyWhenOwningNone]_vars

\* The handle has spawned twice and owns the second process only.
C1_Witness == Len(procs) = 2 /\ Owned(TheHandle) = {2}

\* C2: run() with no token or an unfired token on a running handle rejects with
\* 'Process already running', spawns nothing and changes neither the handle, nor the
\* processes, the listeners or the earlier runs; nor does its return.
RunOnRunningHandle ==
  /\ NewRunStep
  /\ handles[runs'[NewestRun].handle].isRunning
  /\ runs'[NewestRun].signal = NoSignal \/ ~fired[runs'[NewestRun].signal]

C2_Step ==
  /\ RunOnRunningHandle =>
       /\ runs'[NewestRun].promise = "rejected"
       /\ runs'[NewestRun].error = ProcessAlreadyRunning
       /\ runs'[NewestRun].proc = Null
       /\ RunsBefore = runs
       /\ UNCHANGED <<handles, procs, sigListeners>>
  /\ \A r \in 1..Len(runs) :
       Returns(r) /\ runs[r].error = ProcessAlreadyRunning =>
         /\ UNCHANGED <<handles, procs, sigListeners>>
         /\ \A q \in 1..Len(runs) : q # r => runs'[q] = runs[q]

C2_AlreadyRunning == [][C2_Step]_vars

\* The second run failed with 'Process already running' and has returned; the first
\* run then ended with the outcome of its own process.
C2_Witness ==
  /\ Len(runs) = 2
  /\ runs[2].error = ProcessAlreadyRunning /\ runs[2].returned
  /\ runs[1].promise = "resolved" /\ runs[1].returned
  /\ Len(procs) = 1

\* C3: run() with a fired token rejects with 'Signal already aborted', spawns nothing
\* and changes nothing of the handle, whether the handle is idle or running.
RunWithFiredToken ==
  /\ NewRunStep
  /\ runs'[NewestRun].signal # NoSignal
  /\ fired[runs'[NewestRun].signal]

C3_Step ==
  RunWithFiredToken =>
    /\ runs'[NewestRun].promise = "rejected"
    /\ runs'[NewestRun].error = SignalAlreadyAborted
    /\ runs'[NewestRun].proc = Null
    /\ RunsBefore = runs
    /\ UNCHANGED <<handles, procs, sigListeners>>

C3_AbortedBeforeStart == [][C3_Step]_vars

\* run() with a fired token was refused on a handle that is running.
C3_Witness ==
  \E r \in 1..Len(runs) :
    /\ runs[r].error = SignalAlreadyAborted
    /\ \E q \in 1..(r - 1) : runs[q].handle = runs[r].handle /\ runs[q].promise = "pending"
    /\ handles[runs[r].handle].isRunning

\* The close listener of p has run and was given this code.
ClosedWith(p, code) == procs[p].status = "closed" /\ procs[p].code = code

\* C4: when the process of a run exits with code 0 the run resolves, and in the state
\* in which it returns isRunning() is false.
ExitZeroResolves ==
  \A p \in 1..Len(procs) :
    ClosedWith(p, 0) =>
      /\ runs[procs[p].run].promise = "resolved"
      /\ runs[procs[p].run].error = NoError

NotRunningAtReturn ==
  \A r \in 1..Len(runs) :
    Returns(r) /\ runs[r].proc # Null /\ ClosedWith(runs[r].proc, 0) =>
      /\ runs'[r].promise = "resolved"
      /\ ~handles'[runs[r].handle].isRunning

Fires(s) == ~fired[s] /\ fired'[s]

\* Run r was given token s, and its process is running: no 'close' or 'error' of it yet.
StillRunningWith(r, s) ==
  /\ runs[r].signal = s
  /\ runs[r].proc # Null
  /\ procs[runs[r].proc].status = "running"
  /\ runs[r].promise = "pending"

\* C6: if the token of a run fires while its process is still running, a termination
\* request is sent to that process, the run rejects with 'Signal aborted', and the
\* handle lets go of its process with isRunning() false.
C6_Step ==
  \A s \in Signals, r \in 1..Len(runs) :
    Fires(s) /\ StillRunningWith(r, s) =>
      /\ procs'[runs[r].proc].kills > 0
      /\ runs'[r].promise = "rejected"
      /\ runs'[r].error = SignalAborted
      /\ handles'[runs[r].handle].childProcess = Null
      /\ ~handles'[runs[r].handle].isRunning

C6_CancelWhileRunning == [][C6_Step]_vars

\* C7: memoize() on a handle that is not running returns a new handle with the same
\* id and command, no process and both flags false; on a running handle it throws
\* 'Cannot memoize a running process' and makes nothing.  Either way the source
\* handle is left as it was.
MemoizeResult ==
  last.op = "memoize" =>
    IF isRunning(last.a)
    THEN last.made = <<>> /\ last.error = CannotMemoize
    ELSE /\ last.error = NoError
         /\ last.made = <<[id |-> handles[last.a].id,
                           command |-> handles[last.a].command,
                           childProcess |-> Null,
                           isRunning |-> FALSE,
                           completed |-> FALSE]>>

MemoizeChangesNothing ==
  last'.op = "memoize" => UNCHANGED <<handles, procs, runs, sigListeners, fired>>

C7_Memoize == []MemoizeResult /\ [][MemoizeChangesNothing]_vars

\* memoize() on the handle after a run of it has ended returned a fresh object.
C7_Witness ==
  /\ last.op = "memoize" /\ last.made # <<>>
  /\ \E r \in 1..Len(runs) : runs[r].handle = last.a /\ runs[r].returned /\ runs[r].proc # Null

\* ---- runAll ----
BatchRuns(b) == batches[b].first..batches[b].last

\* C8: runAll resolves when every run of the batch has resolved, and only then: in
\* no state has it resolved while a process of the batch has not been seen to exit
\* with code 0.
C8_RunAllWaitsForAll ==
  \A b \in 1..Len(batches) :
    /\ batches[b].state = "resolved" =>
         \A q \in BatchRuns(b) :
           /\ runs[q].returned /\ runs[q].promise = "resolved"
           /\ runs[q].proc # Null /\ ClosedWith(runs[q].proc, 0)
    /\ (\A q \in BatchRuns(b) : runs[q].returned /\ runs[q].promise = "resolved")
         => batches[b].state = "resolved"

\* runAll over two different handles has resolved.
C8_Witness ==
  \E b \in 1..Len(batches) :
    /\ batches[b].state = "resolved"
    /\ batches[b].last = batches[b].first + 1
    /\ runs[batches[b].first].handle # runs[batches[b].last].handle

\* C9: when exactly one run of a batch fails, runAll fails with that run's error, the
\* failure sends no termination request to a sibling's process, and once runAll has
\* returned a sibling that completed says so through isCompleted().
Failed(b) == {q \in BatchRuns(b) : runs[q].returned /\ runs[q].promise = "rejected"}

OneFailureFailsTheBatch ==
  \A b \in 1..Len(batches) :
    (\A q \in BatchRuns(b) : runs[q].returned) =>
      \A q \in BatchRuns(b) :
        Failed(b) = {q} => batches[b].state = "rejected" /\ batches[b].error = runs[q].error

SiblingsNotCancelled ==
  \A b \in 1..Len(batches) :
    batches[b].state = "pending" /\ batches'[b].state = "rejected" =>
      \A p \in 1..Len(procs) : procs'[p].kills = procs[p].kills

SiblingCompletionObservable ==
  \A b \in 1..Len(batches) : \A f, q \in BatchRuns(b) :
    /\ batches[b].state = "rejected"
    /\ Failed(b) = {f}
    /\ runs[q].handle # runs[f].handle
    /\ runs[q].returned /\ runs[q].promise = "resolved"
    => isCompleted(runs[q].handle)

C9_OneFailure ==
  /\ []OneFailureFailsTheBatch
  /\ [][SiblingsNotCancelled]_vars
  /\ []SiblingCompletionObservable

\* ---- the collection ----
\* The positions of ps that removeProcess(id) keeps, and the array they make.
KeptAt(ps, hs, id) == {k \in 1..Len(ps) : hs[ps[k]].id # id}
Kept(ps, hs, id) ==
  [j \in 1..Cardinality(KeptAt(ps, hs, id)) |->
     ps[CHOOSE k \in KeptAt(ps, hs, id) :
          Cardinality({m \in KeptAt(ps, hs, id) : m < k}) = j - 1]]

\* C10: removeProcess(id) removes every element whose id is the argument, keeps the
\* others in their order, changes nothing when no element has that id, and
\* getProcess(id) then finds none.
C10_Step ==
  last'.op = "removeProcess" =>
    /\ processes' = Kept(processes, handles, last'.a)
    /\ \A k \in 1..Len(processes') : handles[processes'[k]].id # last'.a
    /\ KeptAt(processes, handles, last'.a) = 1..Len(processes) => processes' = processes
    /\ getProcess(processes', handles, last'.a) = Null
    /\ UNCHANGED handles

C10_RemoveProcess == [][C10_Step]_vars

\* removeProcess dropped two elements of the same id and kept another.
C10_Witness ==
  last.op = "removeProcess" /\ last.result = 2 /\ Len(processes) = 1

\* ---- one token for the whole batch ----
\* Run r of batch b is still running: its promise is pending and its handle holds
\* the process it spawned.
StillRunningIn(b, r) ==
  /\ r \in BatchRuns(b)
  /\ runs[r].promise = "pending"
  /\ runs[r].proc # Null
  /\ handles[runs[r].handle].childProcess = runs[r].proc

\* The handle of run r has no run of batch b in flight.
HandleAtRest(b, r) ==
  \A q \in BatchRuns(b) : runs[q].handle = runs[r].handle => runs[q].promise # "pending"

C11_Step ==
  \A b \in 1..Len(batches) :
    batches[b].signal # NoSignal /\ Fires(batches[b].signal) =>
      /\ \A r \in BatchRuns(b) :
           StillRunningIn(b, r) =>
             /\ procs'[runs[r].proc].kills = procs[runs[r].proc].kills + 1
             /\ runs'[r].promise = "rejected"
             /\ runs'[r].error = SignalAborted
             /\ handles'[runs[r].handle] = Constructed(handles[runs[r].handle].id)
      /\ \A r \in BatchRuns(b) :
           runs[r].promise # "pending" =>
             /\ runs'[r] = runs[r]
             /\ runs[r].proc # Null => procs'[runs[r].proc] = procs[runs[r].proc]
             /\ HandleAtRest(b, r) => handles'[runs[r].handle] = handles[runs[r].handle]

\* A batch with a run that was cancelled never resolves, and it has failed once
\* that run has returned.
CancelledBatchFails ==
  \A b \in 1..Len(batches) : \A r \in BatchRuns(b) :
    runs[r].promise = "rejected" /\ runs[r].error = SignalAborted =>
      /\ batches[b].state # "resolved"
      /\ runs[r].returned => batches[b].state = "rejected"

\* C11: when the token given to runAll fires, every handle of the batch that is still
\* running gets a termination request for its process and its run rejects with
\* 'Signal aborted', the runs that already ended and their handles are left as they
\* are, and runAll fails.
C11_SharedToken == []CancelledBatchFails /\ [][C11_Step]_vars

\* The token fired while two handles were running: both processes were asked to
\* terminate, both runs were cancelled, and runAll has failed with 'Signal aborted'.
C11_Witness ==
  \E b \in 1..Len(batches) :
    /\ batches[b].state = "rejected" /\ batches[b].error = SignalAborted
    /\ \E r, q \in BatchRuns(b) :
         /\ runs[r].handle # runs[q].handle
         /\ \A x \in {r, q} :
              /\ runs[x].error = SignalAborted
              /\ runs[x].proc # Null
              /\ procs[runs[x].proc].kills = 1

\* ---- several failures in one batch ----
\* The runs of batch b that failed a guard of run(): they never had a process.
GuardFailures(b) ==
  {q \in BatchRuns(b) : runs[q].promise = "rejected" /\ runs[q].proc = Null}

\* Run r returns, as a failure, to the Promise.all of batch b.
ReturnsFailure(b, r) ==
  r \in BatchRuns(b) /\ Returns(r) /\ runs'[r].promise = "rejected"

\* The first failure to return fails the batch with its error; a later one changes
\* nothing of the batch; a failed batch stays as it is.
FirstFailureOnly ==
  \A b \in 1..Len(batches) :
    /\ \A r \in BatchRuns(b) :
         ReturnsFailure(b, r) =>
           IF Failed(b) = {}
           THEN batches'[b].state = "rejected" /\ batches'[b].error = runs'[r].error
           ELSE batches'[b] = batches[b]
    /\ batches[b].state = "rejected" => batches'[b] = batches[b]

\* A failure of a guard surfaces before the failure of any run that spawned.
GuardFailuresFirst ==
  \A b \in 1..Len(batches) :
    GuardFailures(b) # {} =>
      /\ batches[b].state = "rejected" =>
           \E g \in GuardFailures(b) :
             /\ batches[b].error = runs[g].error
             /\ \A q \in GuardFailures(b) : g <= q
      /\ \A q \in Failed(b) \ GuardFailures(b) : \A g \in GuardFailures(b) : runs[g].returned

\* A batch has failed exactly when one of its runs has returned a failure, and its
\* error is the error of one of them.
OneErrorOfTheBatch ==
  \A b \in 1..Len(batches) :
    /\ batches[b].state = "rejected" <=> Failed(b) # {}
    /\ batches[b].state = "rejected" => \E q \in Failed(b) : batches[b].error = runs[q].error
    /\ batches[b].state # "rejected" => batches[b].error = NoError

\* C12: when several runs of a batch fail, runAll fails with one error, that of the
\* run whose failure returns first (a guard failure before any exit, spawn error or
\* cancellation); the later failures are not reported and leave that error in place.
C12_FirstFailure ==
  /\ []GuardFailuresFirst
  /\ []OneErrorOfTheBatch
  /\ [][FirstFailureOnly]_vars

\* Two runs of a batch failed with different errors, the second one by its process:
\* the batch carries the error of the guard failure.
C12_Witness ==
  \E b \in 1..Len(batches) : \E g, q \in Failed(b) :
    /\ runs[g].proc = Null /\ runs[q].proc # Null
    /\ runs[q].error = ProcessFailed(MaxCode)
    /\ batches[b].state = "rejected"
    /\ batches[b].error = runs[g].error
    /\ batches[b].error # runs[q].error

\* ---- back to idle ----
\* The handle holds no process reference and both of its flags are false.
Idle(hs, h) == hs[h].childProcess = Null /\ ~hs[h].isRunning /\ ~hs[h].completed

\* The promise of run r settles in this step: its process exited or failed to
\* spawn, or its token fired.
Settles(r) == r \in 1..Len(runs) /\ runs[r].promise = "pending" /\ runs'[r].promise # "pending"

C13_Step ==
  \A r \in 1..Len(runs) :
    runs[r].proc # Null /\ (Settles(r) \/ Returns(r)) => Idle(handles', runs[r].handle)

RunsOn(h) == {r \in 1..Len(runs) : runs[r].handle = h}

\* run() is called, with no token or an unfired one, on a handle all of whose earlier
\* runs have returned, one of them a run that spawned: a sequential call.
SequentialRun ==
  /\ NewRunStep
  /\ runs'[NewestRun].signal = NoSignal \/ ~fired[runs'[NewestRun].signal]
  /\ \A r \in RunsOn(runs'[NewestRun].handle) : runs[r].returned
  /\ \E r \in RunsOn(runs'[NewestRun].handle) : runs[r].proc # Null

C14_Step ==
  /\ \A r \in 1..Len(runs) : Returns(r) => ~handles'[runs[r].handle].completed
  /\ SequentialRun =>
       /\ SpawnStep
       /\ runs'[NewestRun].proc = Len(procs')
       /\ runs'[NewestRun].promise = "pending"
       /\ procs'[Len(procs')].status = "running"
       /\ handles'[runs'[NewestRun].handle].childProcess = Len(procs')

CloseListenerRuns(p) ==
  p \in 1..Len(procs) /\ procs[p].listening /\ procs[p].status # "closed"
                      /\ procs'[p].status = "closed"

\* No state between two steps has the completed flag set.
NeverCompleted == \A h \in 1..Len(handles) : ~isCompleted(h)

\* C15: the step that delivers the exit notification of a process leaves the handle
\* with isCompleted() true, until cleanup; a run() called on a handle in that state,
\* with no fired token, resolves at once and spawns nothing.
C15_Step ==
  /\ \A p \in 1..Len(procs) :
       CloseListenerRuns(p) => handles'[procs[p].handle].completed
  /\ NewRunStep /\ handles[runs'[NewestRun].handle].completed
       /\ (runs'[NewestRun].signal = NoSignal \/ ~fired[runs'[NewestRun].signal])
       => runs'[NewestRun].promise = "resolved" /\ ~SpawnStep

C15_CompletedWindow == [][C15_Step]_vars

\* ---- kill() ----
\* What kill() on handle h would do in the current state: the termination requests
\* it sends, and the state it leaves.
KillSendsOnlyToOwned(h) ==
  LET w == kill(World, h)
      c == handles[h].childProcess
  IN \A p \in 1..Len(procs) :
       w.procs[p].kills =
         IF p = c /\ ~handles[h].completed THEN procs[p].kills + 1 ELSE procs[p].kills

KillLeavesIdle(h) ==
  LET w == kill(World, h)
  IN /\ Idle(w.handles, h)
     /\ \A g \in 1..Len(handles) : g # h => w.handles[g] = handles[g]
     /\ w.runs = runs /\ w.sigListeners = sigListeners /\ w.microq = microq

KillIdempotent(h) ==
  LET w == kill(World, h)
  IN /\ kill(w, h) = w
     /\ Idle(handles, h) => w = World

\* A step that sends a termination request while no token fires is a call of kill().
KillSendsStep(p) ==
  /\ p \in 1..Len(procs) /\ procs'[p].kills > procs[p].kills
  /\ fired' = fired

KillStepEffect ==
  \A p \in 1..Len(procs) :
    KillSendsStep(p) =>
      /\ handles[procs[p].handle].childProcess = p
      /\ procs'[p].kills = procs[p].kills + 1
      /\ \A q \in 1..Len(procs) : q # p => procs'[q].kills = procs[q].kills
      /\ Idle(handles', procs[p].handle)
      /\ kill(World', procs[p].handle) = World'

\* C16: kill() sends a termination request only when the handle references a process
\* and is not flagged completed, and to that process only; it always leaves the
\* handle with no process and both flags false; a second kill(), and a kill() on an
\* idle handle, sends nothing and changes nothing.
C16_Kill ==
  /\ [](\A h \in 1..Len(handles) :
          KillSendsOnlyToOwned(h) /\ KillLeavesIdle(h) /\ KillIdempotent(h))
  /\ [][KillStepEffect]_vars

\* kill() was called while the process of the first run was running: one request
\* was sent, with no token fired, and the handle is idle.
C16_Witness ==
  /\ Len(procs) = 1 /\ procs[1].kills = 1 /\ procs[1].status = "running"
  /\ \A s \in Signals : ~fired[s]
  /\ Idle(handles, TheHandle)
  /\ runs[1].promise = "pending"

\* ---- spawn errors ----
\* The OS reports an error of process p in this step, to the 'error' listener.
ErrorStep(p) ==
  p \in 1..Len(procs) /\ procs[p].status = "running" /\ procs'[p].status = "errored"

\* The exit of a process that reported an error is notified in this step.
CloseAfterError(p) ==
  p \in 1..Len(procs) /\ procs[p].status = "errored" /\ procs'[p].status = "closed"

\* The error handling: the run rejects with the error object the OS gave, the handle
\* lets go of the process and of its listeners.
ErrorRejectsAndReleases ==
  \A p \in 1..Len(procs) :
    ErrorStep(p) =>
      /\ procs'[p].code \in Causes
      /\ runs'[procs[p].run].promise = "rejected"
      /\ runs'[procs[p].run].error = SpawnError(procs'[p].code)
      /\ handles'[procs[p].handle].childProcess = Null
      /\ ~handles'[procs[p].handle].isRunning
      /\ ~procs'[p].listening

\* A later exit notification of that process reaches no listener.
CloseAfterErrorIgnored ==
  \A p \in 1..Len(procs) :
    CloseAfterError(p) =>
      /\ runs' = runs
      /\ handles' = handles
      /\ microq' = microq

\* The statement as the specification has it: the error marks the handle completed.
ErrorMarksCompleted ==
  \A p \in 1..Len(procs) : ErrorStep(p) => handles'[procs[p].handle].completed

\* What the code does with the flag: the error leaves it false.
ErrorLeavesNotCompleted ==
  \A p \in 1..Len(procs) : ErrorStep(p) => ~handles'[procs[p].handle].completed

Spawned(r) == r \in 1..Len(runs) /\ runs[r].proc # Null

\* The promise of run r is settled.
Settled(r) == r \in 1..Len(runs) /\ runs[r].promise # "pending"

\* C18: every run() that spawned a process settles at some time, its process exiting
\* or reporting an error at some time; also when kill() is called on the handle while
\* the run is in flight.
C18_EventuallySettles == \A r \in 1..MaxRuns : Spawned(r) ~> Settled(r)

\* ---- a token and the runs after its own ----
\* Run q got token s and has returned; run r, a later run of the same handle with
\* another token or none, is in flight and the handle holds its process.
LaterRunInFlight(s, q, r) ==
  /\ q < r
  /\ runs[q].signal = s /\ runs[q].returned
  /\ runs[r].handle = runs[q].handle
  /\ runs[r].signal # s
  /\ runs[r].promise = "pending"
  /\ runs[r].proc # Null
  /\ handles[runs[r].handle].childProcess = runs[r].proc

\* C19: firing the token of a run that has ended sends no termination request to
\* the process of a later run of the handle, leaves the handle's flags and process
\* reference as they are, and leaves that run able to settle: its listeners stay on
\* its process and its promise is untouched.
C19_Step ==
  \A s \in Signals : \A q, r \in 1..Len(runs) :
    Fires(s) /\ LaterRunInFlight(s, q, r) =>
      /\ procs'[runs[r].proc].kills = procs[runs[r].proc].kills
      /\ handles'[runs[r].handle] = handles[runs[r].handle]
      /\ procs'[runs[r].proc].listening = procs[runs[r].proc].listening
      /\ runs'[r] = runs[r]

C19_TokenOnlyItsRun == [][C19_Step]_vars

\* ---- the running flag and the process reference ----
\* C20: in every state between two steps isRunning() is true exactly when the handle
\* references an OS process: no sequence of run(), kill(), token firings and process
\* events leaves the flag set with no process, or a process referenced with the flag
\* clear.
C20_RunningIffOwned ==
  \A h \in 1..Len(handles) : isRunning(h) <=> handles[h].childProcess # Null

\* After a first process was killed and a token has fired, the handle is running
\* again and references its second process.
C20_Witness ==
  /\ Len(procs) = 2 /\ procs[1].kills = 1
  /\ \E s \in Signals : fired[s]
  /\ isRunning(TheHandle) /\ handles[TheHandle].childProcess = 2
====
